---- MODULE Spec2Model ----
(***************************************************************************)
(* A model of room_auto_poster.py: the HTTP fetch with retry and backoff,  *)
(* the extraction of the product metadata, the review generator and the    *)
(* browser-driven posting workflow of main().                              *)
(*                                                                         *)
(* A text is a sequence of characters: an ASCII character is the string    *)
(* holding it, any other character the string "U+" and its code point.     *)
(* None is a value that is no text.  Every effect the program has on the   *)
(* outside world (an HTTP GET, a sleep, a browser operation) is appended   *)
(* to the variable trace.                                                  *)
(***************************************************************************)
EXTENDS Integers, Sequences, FiniteSets

VARIABLES
    pc,              \* position of the single thread of execution
    retries,         \* fetch_product_info: the retries argument
    attempt,         \* fetch_product_info: the loop variable (0 before the loop)
    last_error,      \* fetch_product_info: last_error
    response,        \* fetch_product_info: response (the last Response received), or None
    product_info,    \* the ProductInfo returned by fetch_product_info, or None
    review,          \* main: review, or None
    config,          \* main: RoomPosterConfig
    driver,          \* "none", "open" or "quit"
    handles,         \* driver.window_handles
    current,         \* the window the driver is switched to
    elems,           \* the element-valued locals of the running workflow step
    exc,             \* the exception in flight, or NoExc
    exit_code,       \* process exit status, -1 while running
    exit_msg,        \* the message of SystemExit, or ""
    find_selectors,  \* _find_first_element called on its own: the selectors argument
    find_result,     \* _find_first_element called on its own: what it returned or raised
    call_args,       \* a pure function called on its own: its arguments
    call_result,     \* a pure function called on its own: what it returned
    trace            \* every external effect so far, in order

vars == <<pc, retries, attempt, last_error, response, product_info, review,
          config, driver, handles, current, elems, exc, exit_code,
          exit_msg, find_selectors, find_result, call_args, call_result,
          trace>>

callVars == <<call_args, call_result>>

---------------------------------------------------------------------------
(* Bounds of the model. *)

MaxRetries == 3

MaxNegRetries == 1

MaxNewWindows == 1

MaxSelectors == 3

MaxTitleLen == 165

MaxTextLen == 3

---------------------------------------------------------------------------
(* Texts. *)

None == <<"<None>">>

\* the characters str.strip() and str.split() take for whitespace: those for
\* which str.isspace() holds
WhiteSpace ==
    {" ", "\t", "\n", "", "\f", "\r", "", "", "", "",
     "U+0085", "U+00A0", "U+1680", "U+2000", "U+2001", "U+2002", "U+2003",
     "U+2004", "U+2005", "U+2006", "U+2007", "U+2008", "U+2009", "U+200A",
     "U+2028", "U+2029", "U+202F", "U+205F", "U+3000"}

IsSpace(c) == c \in WhiteSpace

\* Python truthiness of an Optional[str]
Truthy(v) == v # None /\ v # <<>>

RECURSIVE LStrip(_)
LStrip(s) ==
    IF s # <<>> /\ IsSpace(Head(s)) THEN LStrip(Tail(s)) ELSE s

RECURSIVE RStrip(_)
RStrip(s) ==
    IF s # <<>> /\ IsSpace(s[Len(s)]) THEN RStrip(SubSeq(s, 1, Len(s) - 1)) ELSE s

\* str.strip()
Strip(s) == RStrip(LStrip(s))

\* length of the leading run of non-whitespace characters
RECURSIVE WordLen(_)
WordLen(s) ==
    IF s = <<>> \/ IsSpace(Head(s)) THEN 0 ELSE 1 + WordLen(Tail(s))

\* str.split() with no argument
RECURSIVE Split(_)
Split(s) ==
    IF s = <<>> THEN <<>>
    ELSE IF IsSpace(Head(s)) THEN Split(Tail(s))
    ELSE LET n == WordLen(s)
         IN  <<SubSeq(s, 1, n)>> \o Split(SubSeq(s, n + 1, Len(s)))

\* sep.join(parts)
RECURSIVE Join(_, _)
Join(sep, parts) ==
    IF parts = <<>> THEN <<>>
    ELSE IF Len(parts) = 1 THEN parts[1]
    ELSE parts[1] \o sep \o Join(sep, Tail(parts))

\* " ".join(value.split())
JoinSplit(value) == Join(<<" ">>, Split(value))

\* "\n" in value
HasNewline(value) == \E i \in 1..Len(value) : value[i] = "\n"

---------------------------------------------------------------------------
(* The fetched document and the extractor. *)

DEFAULT_TITLE_SELECTORS ==
    <<"meta[property='og:title']", "h1[itemprop='name']", "title">>

DEFAULT_PRICE_SELECTORS ==
    <<"span[itemprop='price']", ".price2", "span[class*='price']">>

DEFAULT_SHOP_SELECTORS ==
    <<"a[itemprop='seller']", "a[class*='ShopName']">>

DEFAULT_TITLE == <<"U+697D", "U+5929", "U+306E", "U+5546", "U+54C1">>

\* What soup.select_one gives: no element, or an element with its "content"
\* attribute (when it has one) and the strings of its text nodes.
NoNode == [found |-> FALSE, has_content |-> FALSE, content |-> <<>>, strings |-> <<>>]

AttrNode(c) == [found |-> TRUE, has_content |-> TRUE, content |-> c, strings |-> <<>>]

TextNode(ss) == [found |-> TRUE, has_content |-> FALSE, content |-> <<>>, strings |-> ss]

\* soup.select_one(selector): a document is the function selector -> first match
select_one(soup, selector) == soup[selector]

\* node.get_text(strip=True): the stripped, non-empty strings, concatenated
RECURSIVE get_text_strip(_)
get_text_strip(strings) ==
    IF strings = <<>> THEN <<>>
    ELSE Strip(Head(strings)) \o get_text_strip(Tail(strings))

\* the text _first_text_match returns for a matched node
node_text(node) ==
    IF node.has_content THEN node.content ELSE get_text_strip(node.strings)


\* "if node and text": a matched element with an empty text is passed over
RECURSIVE text_match_loop_SkipEmpty(_, _)
text_match_loop_SkipEmpty(soup, selectors) ==
    IF selectors = <<>> THEN [tried |-> <<>>, text |-> None]
    ELSE LET node == select_one(soup, Head(selectors))
             rest == text_match_loop_SkipEmpty(soup, Tail(selectors))
         IN  IF node.found /\ node_text(node) # <<>>
             THEN [tried |-> <<Head(selectors)>>, text |-> node_text(node)]
             ELSE [tried |-> <<Head(selectors)>> \o rest.tried,
                   text  |-> rest.text]

\* the loop of _first_text_match: the selectors it gave to soup.select_one, in
\* order, and the text it returned
RECURSIVE text_match_loop(_, _)
text_match_loop(soup, selectors) ==
    IF selectors = <<>> THEN [tried |-> <<>>, text |-> None]
    ELSE LET node == select_one(soup, Head(selectors))
             rest == text_match_loop(soup, Tail(selectors))
         IN  IF node.found
             THEN [tried |-> <<Head(selectors)>>, text |-> node_text(node)]
             ELSE [tried |-> <<Head(selectors)>> \o rest.tried,
                   text  |-> rest.text]

first_text_match(soup, selectors) == text_match_loop(soup, selectors).text

clean_text(value) ==
    IF ~Truthy(value) THEN None ELSE JoinSplit(value)


\* the title without the "or" default
title_or_default_NoDefault(soup) ==
    first_text_match(soup, DEFAULT_TITLE_SELECTORS)

\* title = _first_text_match(...) or "楽天の商品"
title_or_default(soup) ==
    LET t == first_text_match(soup, DEFAULT_TITLE_SELECTORS)
    IN  IF Truthy(t) THEN t ELSE DEFAULT_TITLE

\* if title and "\n" in title: title = " ".join(title.split())
title_newline_fix(title) ==
    IF Truthy(title) /\ HasNewline(title) THEN JoinSplit(title) ELSE title

\* the ProductInfo built from the parsed document
extract(soup) ==
    LET title     == title_newline_fix(title_or_default(soup))
        price     == first_text_match(soup, DEFAULT_PRICE_SELECTORS)
        shop_name == first_text_match(soup, DEFAULT_SHOP_SELECTORS)
    IN  [title     |-> Strip(title),
         price     |-> clean_text(price),
         shop_name |-> clean_text(shop_name)]

---------------------------------------------------------------------------
(* The review generator. *)

MAX_REVIEW_LEN == 400

TRUNCATED_LEN == 397

KEY_POINT_PREFIX == <<"U+8981", "U+70B9", ":", " ">>

PRICE_SUFFIX == <<"U+3067", "U+624B", "U+306B", "U+5165", "U+308B">>

SHOP_SUFFIX ==
    <<"U+306E", "U+4EBA", "U+6C17", "U+30A2", "U+30A4", "U+30C6", "U+30E0">>

SEPARATOR == <<"U+30FB">>

ELLIPSIS == <<"U+2026">>

DESIGN_PREFIX == <<"U+30C7", "U+30B6", "U+30A4", "U+30F3", ":", " ">>

DESIGN_SUFFIX ==
    <<"U+306E", "U+9B45", "U+529B", "U+3092", "U+6D3B", "U+304B", "U+3057",
      "U+305F", "U+4E0A", "U+8CEA", "U+306A", "U+4ED5", "U+4E0A", "U+304C",
      "U+308A", "U+3002">>

USABILITY ==
    <<"U+4F7F", "U+3044", "U+52DD", "U+624B", ":", " ", "U+65E5", "U+5E38",
      "U+304B", "U+3089", "U+7279", "U+5225", "U+306A", "U+30B7", "U+30FC",
      "U+30F3", "U+307E", "U+3067", "U+5E45", "U+5E83", "U+304F", "U+6D3B",
      "U+8E8D", "U+3002">>

SATISFACTION ==
    <<"U+6E80", "U+8DB3", "U+5EA6", ":", " ", "U+53E3", "U+30B3", "U+30DF",
      "U+3067", "U+3082", "U+9AD8", "U+8A55", "U+4FA1", "U+3067", "U+8D08",
      "U+308A", "U+7269", "U+306B", "U+3082", "U+304A", "U+3059", "U+3059",
      "U+3081", "U+3002">>


\* the price and shop phrases are added whether or not the fields are present
key_point_parts_Always(info) ==
    <<info.title, info.price \o PRICE_SUFFIX, info.shop_name \o SHOP_SUFFIX>>

\* lines 177-182
key_point_parts(info) ==
    <<info.title>>
    \o (IF Truthy(info.price) THEN <<info.price \o PRICE_SUFFIX>> ELSE <<>>)
    \o (IF Truthy(info.shop_name) THEN <<info.shop_name \o SHOP_SUFFIX>> ELSE <<>>)

bullet_points(info) ==
    <<DESIGN_PREFIX \o info.title \o DESIGN_SUFFIX, USABILITY, SATISFACTION>>

review_lines(info) ==
    <<KEY_POINT_PREFIX \o Join(SEPARATOR, key_point_parts(info)), <<>>>>
    \o [i \in 1..3 |-> SEPARATOR \o bullet_points(info)[i]]

untruncated_review(info) == Join(<<"\n">>, review_lines(info))


\* cuts at the limit itself, so that the ellipsis makes the text too long
truncate_AtLimit(text) ==
    IF Len(text) > MAX_REVIEW_LEN
    THEN SubSeq(text, 1, MAX_REVIEW_LEN) \o ELLIPSIS
    ELSE text

\* lines 197-198
truncate(text) ==
    IF Len(text) > MAX_REVIEW_LEN
    THEN SubSeq(text, 1, TRUNCATED_LEN) \o ELLIPSIS
    ELSE text

generate_review(info) == truncate(untruncated_review(info))

---------------------------------------------------------------------------
(* Values shared by the operations. *)

NoLoc == <<"", "">>

\* an exception: its type, its message, the type of its cause ("from exc") and,
\* for a failed wait or an exception built from one, the locator waited for
ExcAt(type, msg, cause, loc) ==
    [type |-> type, msg |-> msg, cause |-> cause, loc |-> loc]

Exc(type, msg, cause) == ExcAt(type, msg, cause, NoLoc)

NoExc == Exc("none", "", "")

\* one external effect: the operation, its outcome, and (where they apply) the
\* locator it used, a number (attempt, seconds slept, window handle or count)
\* and, for an operation on an element, the local variable holding the
\* element and the text typed
Ev(op, res, loc, n, text) ==
    [op |-> op, res |-> res, var |-> "", loc |-> loc, n |-> n, text |-> text]

\* an operation on the element held by the local variable var
ElemEv(op, var, loc, text) ==
    [op |-> op, res |-> "", var |-> var, loc |-> loc, n |-> 0, text |-> text]

\* the local "response" of fetch_product_info: None, or the Response of the
\* last requests.get that returned, with its status and the document its text
\* parses to; the text of a response that fails raise_for_status is never read
NoResponse == [present |-> FALSE, status |-> 0, soup |-> <<>>]

NoInfo == [title |-> None, price |-> None, shop_name |-> None]

NoElems ==
    [room_link |-> NoLoc, username_input |-> NoLoc, password_input |-> NoLoc,
     login_button |-> NoLoc, textarea |-> NoLoc, submit_button |-> NoLoc]

NoResult == [elem |-> NoLoc, exc |-> NoExc]

\* no pure function was called on its own
NoCall == <<>>

\* RuntimeError raised when the last attempt fails (lines 135-137):
\* "商品ページの取得中にタイムアウトまたは通信エラーが発生しました。"
MSG_FETCH_TRANSPORT == "fetch: timeout or communication error"

\* RuntimeError of the two safety nets (lines 140, 143):
\* "商品ページの取得に失敗しました。"
MSG_FETCH_FAILED == "fetch: failed to get the product page"

\* SystemExit message of main (lines 331-333):
\* "商品情報の取得に失敗しました。ネットワーク環境を確認し、再度お試しください。"
MSG_EXIT == "failed to get the product information; check the network and retry"

---------------------------------------------------------------------------
(* The inputs the environment may supply. *)

\* what one requests.get can end in: a response with a status, or a transport
\* error raised by requests.get itself
Outcomes ==
    {[kind |-> "response", status |-> 200],
     [kind |-> "response", status |-> 404],
     [kind |-> "Timeout", status |-> 0]}

TitleNodes ==
    {NoNode,
     AttrNode(<<>>),
     AttrNode(<<" ">>),
     AttrNode(<<"A", "\n", "\r", "B">>),
     AttrNode(<<"A", "\t", "B">>),
     TextNode(<< <<"U+3000", "A", "\r">>, <<" ", "B">> >>),
     TextNode(<< <<" ">> >>)}

FieldNodes ==
    {NoNode,
     TextNode(<< <<" ">> >>),
     AttrNode(<<"U+3000", "9", "\t", "\r", "8", "U+00A0">>)}

\* the document in which the title, price and shop selectors match as given
Doc(t, p, s) ==
    [sel \in {DEFAULT_TITLE_SELECTORS[i] : i \in 1..3}
             \cup {DEFAULT_PRICE_SELECTORS[i] : i \in 1..3}
             \cup {DEFAULT_SHOP_SELECTORS[i] : i \in 1..2} |->
        IF \E i \in 1..3 : sel = DEFAULT_TITLE_SELECTORS[i]
        THEN t[CHOOSE i \in 1..3 : sel = DEFAULT_TITLE_SELECTORS[i]]
        ELSE IF \E i \in 1..3 : sel = DEFAULT_PRICE_SELECTORS[i]
        THEN p[CHOOSE i \in 1..3 : sel = DEFAULT_PRICE_SELECTORS[i]]
        ELSE s[CHOOSE i \in 1..2 : sel = DEFAULT_SHOP_SELECTORS[i]]]

NoMatch3 == <<NoNode, NoNode, NoNode>>

NoMatch2 == <<NoNode, NoNode>>

\* documents whose title elements vary freely, and documents whose price and
\* shop elements vary freely
Docs ==
    {Doc(t, NoMatch3, NoMatch2) : t \in [1..3 -> TitleNodes]}
    \cup
    {Doc(NoMatch3, p, s) : p \in [1..3 -> FieldNodes], s \in [1..2 -> FieldNodes]}

\* the values _clean_text is called with on its own: None and every text of at
\* most MaxTextLen characters, each a letter or one of five whitespace
\* characters
CleanInputs ==
    {None}
    \cup UNION {[1..n -> {"A", " ", "\t", "\n", "\r", "U+3000"}] :
                   n \in 0..MaxTextLen}

\* _first_text_match called on its own: the selectors it is given are drawn
\* from these
MatchSelectors == DEFAULT_TITLE_SELECTORS

\* what the i-th of them selects: nothing, an element with no text, or an
\* element whose text names i
MatchNode(i, kind) ==
    IF kind = "none" THEN NoNode
    ELSE IF kind = "empty" THEN TextNode(<< <<" ">> >>)
    ELSE AttrNode(<<"A", <<"1", "2", "3">>[i]>>)

MatchSoups ==
    {[sel \in {MatchSelectors[i] : i \in 1..3} |->
        LET i == CHOOSE j \in 1..3 : MatchSelectors[j] = sel
        IN  MatchNode(i, k[i])] : k \in [1..3 -> {"none", "empty", "text"}]}

\* a title of n characters, told apart by their position
Title(n) ==
    [i \in 1..n |->
        <<"0", "1", "2", "3", "4", "5", "6", "7", "8", "9">>[((i - 1) % 10) + 1]]

\* the ProductInfo values generate_review is called with on its own: a title
\* of any length up to MaxTitleLen, a price and a shop name that are None,
\* empty or a text
ReviewInfos ==
    {[title |-> Title(n), price |-> p, shop_name |-> s] :
        n \in 0..MaxTitleLen,
        p \in {None, <<>>, <<"9">>},
        s \in {None, <<>>, <<"S">>}}

Usernames == {None, <<>>, <<"u">>}

Passwords == {None, <<>>, <<"p">>}

---------------------------------------------------------------------------
(* fetch_product_info *)

DEFAULT_RETRIES == 3

\* requests.get raised (a timeout, a connection error)
GetRaises(o) == o.kind # "response"

\* response.raise_for_status() raises HTTPError
RaiseForStatusRaises(o) == o.status >= 400 /\ o.status < 600

\* the RequestException the attempt raised, or "none"
RequestException(o) ==
    IF GetRaises(o) THEN o.kind
    ELSE IF RaiseForStatusRaises(o) THEN "HTTPError"
    ELSE "none"


\* a constant delay in place of the growing one
BackoffDelay_Constant(k) == 2

\* the argument of time.sleep after a failed attempt
BackoffDelay(k) == 2 * k


\* "range(0, retries + 1)": one attempt more, and one even with retries = 0
LoopContinues_Inclusive(k, n) == k <= n

\* "for attempt in range(1, retries + 1)" has another value to give
LoopContinues(k, n) == k < n


\* gives up one attempt early
IsLastAttempt_OneEarly(k, n) == k >= n - 1

\* "if attempt == retries"
IsLastAttempt(k, n) == k = n

\* line 127, and the else clause of the loop (lines 139-140)
FetchLoop ==
    /\ pc = "fetch_loop"
    /\ IF LoopContinues(attempt, retries)
       THEN /\ attempt' = attempt + 1
            /\ pc' = "fetch_get"
            /\ exc' = exc
       ELSE /\ exc' = Exc("RuntimeError", MSG_FETCH_FAILED, "")
            /\ pc' = "fetch_raise"
            /\ attempt' = attempt
    /\ UNCHANGED <<retries, last_error, response, product_info, review, config,
                   driver, handles, current, elems, exit_code,
                   exit_msg, find_selectors, find_result, callVars, trace>>

\* lines 128-137: one attempt; line 129 assigns response before
\* raise_for_status may raise at line 130
FetchGet ==
    /\ pc = "fetch_get"
    /\ \E o \in Outcomes :
         LET e == RequestException(o) IN
         /\ trace' = Append(trace, Ev("http_get", e, NoLoc, attempt, <<>>))
         /\ IF e # "none"
            THEN /\ last_error' = e
                 /\ response' = IF GetRaises(o) THEN response
                                 ELSE [present |-> TRUE, status |-> o.status,
                                       soup |-> <<>>]
                 /\ IF IsLastAttempt(attempt, retries)
                    THEN /\ exc' = Exc("RuntimeError", MSG_FETCH_TRANSPORT, e)
                         /\ pc' = "fetch_raise"
                    ELSE /\ exc' = exc
                         /\ pc' = "fetch_sleep"
            ELSE /\ \E doc \in Docs :
                      response' = [present |-> TRUE, status |-> o.status,
                                   soup |-> doc]
                 /\ pc' = "fetch_parse"
                 /\ UNCHANGED <<last_error, exc>>
    /\ UNCHANGED <<retries, attempt, product_info, review, config, driver,
                   handles, current, elems, exit_code, exit_msg,
                   find_selectors, find_result, callVars>>

\* line 138
FetchSleep ==
    /\ pc = "fetch_sleep"
    /\ trace' = Append(trace, Ev("sleep", "", NoLoc, BackoffDelay(attempt), <<>>))
    /\ pc' = "fetch_loop"
    /\ UNCHANGED <<retries, attempt, last_error, response, product_info, review,
                   config, driver, handles, current, elems, exc,
                   exit_code, exit_msg, find_selectors, find_result, callVars>>

\* lines 142-155: the safety net, the parse and the ProductInfo returned
FetchParse ==
    /\ pc = "fetch_parse"
    /\ IF ~response.present
       THEN /\ exc' = Exc("RuntimeError", MSG_FETCH_FAILED, "")
            /\ pc' = "fetch_raise"
            /\ product_info' = product_info
       ELSE /\ product_info' = extract(response.soup)
            /\ pc' = "fetch_return"
            /\ exc' = exc
    /\ UNCHANGED <<retries, attempt, last_error, response, review, config,
                   driver, handles, current, elems, exit_code,
                   exit_msg, find_selectors, find_result, callVars, trace>>

---------------------------------------------------------------------------
(* Locators and _find_first_element *)

DEFAULT_ROOM_REVIEW_SELECTORS ==
    <<<<"css selector", "textarea[name='comment']">>,
      <<"css selector", "textarea[class*='comment']">>>>

DEFAULT_ROOM_SUBMIT_SELECTORS ==
    <<<<"css selector", "button[type='submit']">>,
      <<"css selector", "button[class*='submit']">>>>

LOGIN_USERNAME_SELECTORS ==
    <<<<"id", "loginInner_u">>, <<"name", "u">>, <<"name", "login_id">>>>

LOGIN_PASSWORD_SELECTORS ==
    <<<<"id", "loginInner_p">>, <<"name", "p">>, <<"name", "passwd">>>>

LOGIN_SUBMIT_SELECTORS ==
    <<<<"id", "loginInner_y">>, <<"name", "submit">>,
      <<"css selector", "button[type='submit']">>>>

\* (By.PARTIAL_LINK_TEXT, "ROOMへ投稿")
ROOM_LINK == <<"partial link text", "ROOM+U+3078+U+6295+U+7A3F">>

RoomPosterConfig(username, password) ==
    [username         |-> username,
     password         |-> password,
     review_selectors |-> DEFAULT_ROOM_REVIEW_SELECTORS,
     submit_selectors |-> DEFAULT_ROOM_SUBMIT_SELECTORS]

Range(f) == {f[i] : i \in DOMAIN f}

\* the window the driver is switched to is open
WindowOpen(hs, cur) == cur \in Range(hs)

\* how one wait.until(presence_of_element_located(...)) ends: the element, a
\* TimeoutException, or (the driver's window being closed) the
\* NoSuchWindowException of the lookup
WaitOutcome(is_present, window_open) ==
    IF ~window_open THEN "NoSuchWindowException"
    ELSE IF is_present THEN "found"
    ELSE "TimeoutException"

\* "except (TimeoutException, NoSuchElementException)"
CaughtByFind(outcome) ==
    outcome \in {"TimeoutException", "NoSuchElementException"}


\* the failure of the last wait is dropped
RaiseAfterLoop_Generic(last) ==
    Exc("TimeoutException", "No selectors provided", "")

\* lines 296-298: what is raised after the loop; last is the locator of the
\* wait whose failure last_error holds, NoLoc for last_error = None
RaiseAfterLoop(last) ==
    IF last # NoLoc
    THEN ExcAt("TimeoutException", "str(last_error)", "", last)
    ELSE Exc("TimeoutException", "No selectors provided", "")

\* lines 290-298.  present[i] tells whether the i-th wait finds its element.
\* The result: the waits performed, the element returned (the locator that
\* found it) and the exception raised.
RECURSIVE find_loop(_, _, _, _)
find_loop(selectors, present, window_open, last) ==
    IF selectors = <<>>
    THEN [waits |-> <<>>, elem |-> NoLoc, exc |-> RaiseAfterLoop(last)]
    ELSE LET loc     == Head(selectors)
             outcome == WaitOutcome(Head(present), window_open)
             wait    == Ev("wait_presence", outcome, loc, 0, <<>>)
         IN  IF outcome = "found"
             THEN [waits |-> <<wait>>, elem |-> loc, exc |-> NoExc]
             ELSE IF CaughtByFind(outcome)
             THEN LET rest == find_loop(Tail(selectors), Tail(present),
                                        window_open, loc)
                  IN  [rest EXCEPT !.waits = <<wait>> \o @]
             ELSE [waits |-> <<wait>>, elem |-> NoLoc,
                   exc |-> ExcAt(outcome, "", "", loc)]

find_first_element(selectors, present, window_open) ==
    find_loop(selectors, present, window_open, NoLoc)

\* the ways the waits of one call may end
Presence(selectors) == [1..Len(selectors) -> BOOLEAN]

---------------------------------------------------------------------------
(* main and the posting workflow *)

fetchVars == <<retries, attempt, last_error, response>>

browserVars == <<driver, handles, current, elems>>

exitVars == <<exit_code, exit_msg>>

findVars == <<find_selectors, find_result>>

\* lines 329 and 335: fetch_product_info returned; its locals are gone
MainFetchReturned ==
    /\ pc = "fetch_return"
    /\ pc' = "generate"
    /\ attempt' = 0
    /\ last_error' = "none"
    /\ response' = NoResponse
    /\ UNCHANGED <<retries, product_info, review, config, browserVars, exc,
                   exitVars, findVars, callVars, trace>>


\* the RuntimeError of the fetch is swallowed and main goes on
MainFetchFailed_Continue ==
    /\ pc = "fetch_raise"
    /\ exc.type = "RuntimeError"
    /\ exc' = NoExc
    /\ pc' = "generate"
    /\ UNCHANGED <<fetchVars, product_info, review, config, browserVars,
                   exitVars, findVars, callVars, trace>>

\* lines 330-333: "except RuntimeError" raises SystemExit with a message
MainFetchFailed ==
    /\ pc = "fetch_raise"
    /\ exc.type = "RuntimeError"
    /\ exc' = Exc("SystemExit", MSG_EXIT, exc.type)
    /\ exit_code' = 1
    /\ exit_msg' = MSG_EXIT
    /\ pc' = "exited"
    /\ UNCHANGED <<fetchVars, product_info, review, config, browserVars,
                   findVars, callVars, trace>>

\* line 335
GenerateReview ==
    /\ pc = "generate"
    /\ review' = generate_review(product_info)
    /\ pc' = "create_driver"
    /\ UNCHANGED <<fetchVars, product_info, config, browserVars, exc, exitVars,
                   findVars, callVars, trace>>

\* line 337: the browser starts, or webdriver.Chrome raises and main ends
\* before its try block
CreateDriver ==
    /\ pc = "create_driver"
    /\ \E started \in BOOLEAN :
         IF started
         THEN /\ driver' = "open"
              /\ handles' = <<1>>
              /\ current' = 1
              /\ trace' = Append(trace, Ev("create_driver", "", NoLoc, 0, <<>>))
              /\ pc' = "nav_get"
              /\ UNCHANGED <<exc, exitVars>>
         ELSE /\ exc' = Exc("WebDriverException", "", "")
              /\ exit_code' = 1
              /\ pc' = "exited"
              /\ UNCHANGED <<driver, handles, current, exit_msg, trace>>
    /\ UNCHANGED <<fetchVars, product_info, review, config, elems, findVars, callVars>>

\* lines 218-223: open the page and wait for the ROOM link
NavGet ==
    /\ pc = "nav_get"
    /\ \E clickable \in BOOLEAN :
         LET res == IF clickable THEN "found" ELSE "TimeoutException" IN
         /\ trace' = trace \o <<Ev("get", "", NoLoc, 0, <<>>),
                                Ev("wait_clickable", res, ROOM_LINK, 0, <<>>)>>
         /\ IF clickable
            THEN /\ elems' = [elems EXCEPT !.room_link = ROOM_LINK]
                 /\ pc' = "nav_click"
                 /\ exc' = exc
            ELSE /\ exc' = ExcAt("TimeoutException", "", "", ROOM_LINK)
                 /\ pc' = "finally"
                 /\ elems' = elems
    /\ UNCHANGED <<fetchVars, product_info, review, config, driver, handles,
                   current, exitVars, findVars, callVars>>

\* the handles after n more windows opened
RECURSIVE Opened(_, _)
Opened(hs, n) == IF n = 0 THEN hs ELSE Opened(Append(hs, Len(hs) + 1), n - 1)

\* "if len(driver.window_handles) > 1"
SeveralWindows(hs) == Len(hs) > 1

\* lines 224-229: click the link, pause, switch to the newest window.
\* driver.window_handles is read for the test of line 228 and read again for
\* the handle of line 229: n windows opened before the first read, and one
\* more may open between the two
NavClick ==
    /\ pc = "nav_click"
    /\ \E n \in 0..MaxNewWindows, late \in BOOLEAN :
         LET tested == Opened(handles, n)
             hs     == IF late THEN Opened(tested, 1) ELSE tested
         IN  /\ late => SeveralWindows(tested)
             /\ handles' = hs
             /\ current' = IF SeveralWindows(tested) THEN hs[Len(hs)]
                           ELSE current
             /\ trace' = trace
                    \o <<ElemEv("click", "room_link", elems.room_link, <<>>),
                         Ev("sleep", "", NoLoc, 1, <<>>),
                         Ev("window_handles", "", NoLoc, Len(tested), <<>>)>>
                    \o (IF SeveralWindows(tested)
                        THEN <<Ev("window_handles", "", NoLoc, Len(hs), <<>>),
                               Ev("switch_to", "", NoLoc, hs[Len(hs)], <<>>)>>
                        ELSE <<>>)
    /\ pc' = "login_check"
    /\ UNCHANGED <<fetchVars, product_info, review, config, driver, elems, exc,
                   exitVars, findVars, callVars>>


\* "and" in place of "or": the login is skipped only when both are absent
CredentialsAbsent_Both(cfg) == ~Truthy(cfg.username) /\ ~Truthy(cfg.password)

\* "if not config.username or not config.password"
CredentialsAbsent(cfg) == ~Truthy(cfg.username) \/ ~Truthy(cfg.password)

\* lines 235-236
LoginCheck ==
    /\ pc = "login_check"
    /\ pc' = IF CredentialsAbsent(config) THEN "post_find_textarea"
             ELSE "login_find_fields"
    /\ UNCHANGED <<fetchVars, product_info, review, config, browserVars, exc,
                   exitVars, findVars, callVars, trace>>


\* a login field that is not found ends the workflow
AfterLoginLookup_Fatal(e) ==
    IF e.type = "none" THEN "login_fill" ELSE "finally"

\* where login_if_required goes after the two lookups of lines 241-242
AfterLoginLookup(e) ==
    IF e.type = "none" THEN "login_fill"
    ELSE IF e.type = "TimeoutException" THEN "post_find_textarea"
    ELSE "finally"

\* lines 240-244: look for the username field, then for the password field
LoginFindFields ==
    /\ pc = "login_find_fields"
    /\ \E pu \in Presence(LOGIN_USERNAME_SELECTORS),
          pp \in Presence(LOGIN_PASSWORD_SELECTORS) :
         LET open == WindowOpen(handles, current)
             u    == find_first_element(LOGIN_USERNAME_SELECTORS, pu, open)
             p    == find_first_element(LOGIN_PASSWORD_SELECTORS, pp, open)
             e    == IF u.exc # NoExc THEN u.exc ELSE p.exc
         IN  /\ trace' = trace \o u.waits
                               \o (IF u.exc = NoExc THEN p.waits ELSE <<>>)
             /\ pc' = AfterLoginLookup(e)
             /\ elems' = IF e = NoExc
                         THEN [elems EXCEPT !.username_input = u.elem,
                                            !.password_input = p.elem]
                         ELSE elems
             /\ exc' = IF AfterLoginLookup(e) = "finally" THEN e ELSE exc
    /\ UNCHANGED <<fetchVars, product_info, review, config, driver, handles,
                   current, exitVars, findVars, callVars>>

\* lines 246-249
LoginFill ==
    /\ pc = "login_fill"
    /\ trace' = trace
           \o <<ElemEv("clear", "username_input", elems.username_input, <<>>),
                ElemEv("send_keys", "username_input", elems.username_input,
                       config.username),
                ElemEv("clear", "password_input", elems.password_input, <<>>),
                ElemEv("send_keys", "password_input", elems.password_input,
                       config.password)>>
    /\ pc' = "login_find_submit"
    /\ UNCHANGED <<fetchVars, product_info, review, config, browserVars, exc,
                   exitVars, findVars, callVars>>


\* "except TimeoutException: return" in place of the raise
Reraised_Swallowed(e, msg) ==
    IF e.type = "TimeoutException" THEN NoExc ELSE e

\* "except TimeoutException as exc: raise RuntimeError(msg) from exc"; any
\* other exception of the lookup propagates as it is
Reraised(e, msg) ==
    IF e.type = "TimeoutException"
    THEN ExcAt("RuntimeError", msg, e.type, e.loc)
    ELSE e

\* lines 251-254
LoginFindSubmit ==
    /\ pc = "login_find_submit"
    /\ \E ps \in Presence(LOGIN_SUBMIT_SELECTORS) :
         LET r == find_first_element(LOGIN_SUBMIT_SELECTORS, ps,
                                     WindowOpen(handles, current))
         IN  /\ trace' = trace \o r.waits
             /\ IF r.exc = NoExc
                THEN /\ elems' = [elems EXCEPT !.login_button = r.elem]
                     /\ pc' = "login_click"
                     /\ exc' = exc
                ELSE /\ exc' = Reraised(r.exc, "Unable to locate login submit button.")
                     /\ pc' = "finally"
                     /\ elems' = elems
    /\ UNCHANGED <<fetchVars, product_info, review, config, driver, handles,
                   current, exitVars, findVars, callVars>>

\* the handles of the windows at the positions in keep
RECURSIVE Kept(_, _, _)
Kept(hs, keep, i) ==
    IF i > Len(hs) THEN <<>>
    ELSE (IF i \in keep THEN <<hs[i]>> ELSE <<>>) \o Kept(hs, keep, i + 1)


\* the wait is satisfied by one window or more
NumberOfWindowsToBe_AtLeast(hs, n) == Len(hs) >= n

\* EC.number_of_windows_to_be(1)
NumberOfWindowsToBe(hs, n) == Len(hs) = n

\* lines 256-259: click the login button; the login flow may close windows;
\* wait until one window is left
LoginClick ==
    /\ pc = "login_click"
    /\ \E keep \in SUBSET (1..Len(handles)) :
         /\ keep # {}
         /\ LET hs == Kept(handles, keep, 1)
                ok == NumberOfWindowsToBe(hs, 1)
            IN  /\ handles' = hs
                /\ trace' = trace
                       \o <<ElemEv("click", "login_button", elems.login_button, <<>>),
                            Ev("wait_windows",
                               IF ok THEN "found" ELSE "TimeoutException",
                               NoLoc, Len(hs), <<>>)>>
                       \o (IF ok THEN <<Ev("sleep", "", NoLoc, 1, <<>>)>> ELSE <<>>)
                /\ pc' = IF ok THEN "post_find_textarea" ELSE "finally"
                /\ exc' = IF ok THEN exc ELSE Exc("TimeoutException", "", "")
    /\ UNCHANGED <<fetchVars, product_info, review, config, driver, current,
                   elems, exitVars, findVars, callVars>>

\* lines 265-270
PostFindTextarea ==
    /\ pc = "post_find_textarea"
    /\ \E pr \in Presence(config.review_selectors) :
         LET r == find_first_element(config.review_selectors, pr,
                                     WindowOpen(handles, current))
         IN  /\ trace' = trace \o r.waits
             /\ IF r.exc = NoExc
                THEN /\ elems' = [elems EXCEPT !.textarea = r.elem]
                     /\ pc' = "post_type"
                     /\ exc' = exc
                ELSE /\ exc' = Reraised(r.exc, "Unable to locate ROOM review textarea.")
                     /\ pc' = "finally"
                     /\ elems' = elems
    /\ UNCHANGED <<fetchVars, product_info, review, config, driver, handles,
                   current, exitVars, findVars, callVars>>


\* the textarea is cleared but the review is never typed
PostType_NoSendKeys ==
    /\ pc = "post_type"
    /\ trace' = Append(trace, ElemEv("clear", "textarea", elems.textarea, <<>>))
    /\ pc' = "post_find_submit"
    /\ UNCHANGED <<fetchVars, product_info, review, config, browserVars, exc,
                   exitVars, findVars, callVars>>

\* lines 272-273
PostType ==
    /\ pc = "post_type"
    /\ trace' = trace \o <<ElemEv("clear", "textarea", elems.textarea, <<>>),
                           ElemEv("send_keys", "textarea", elems.textarea, review)>>
    /\ pc' = "post_find_submit"
    /\ UNCHANGED <<fetchVars, product_info, review, config, browserVars, exc,
                   exitVars, findVars, callVars>>

\* lines 275-278
PostFindSubmit ==
    /\ pc = "post_find_submit"
    /\ \E ps \in Presence(config.submit_selectors) :
         LET r == find_first_element(config.submit_selectors, ps,
                                     WindowOpen(handles, current))
         IN  /\ trace' = trace \o r.waits
             /\ IF r.exc = NoExc
                THEN /\ elems' = [elems EXCEPT !.submit_button = r.elem]
                     /\ pc' = "post_click"
                     /\ exc' = exc
                ELSE /\ exc' = Reraised(r.exc, "Unable to locate ROOM submit button.")
                     /\ pc' = "finally"
                     /\ elems' = elems
    /\ UNCHANGED <<fetchVars, product_info, review, config, driver, handles,
                   current, exitVars, findVars, callVars>>

\* lines 280-282; post_review returns and the try block of main ends
PostClick ==
    /\ pc = "post_click"
    /\ trace' = trace \o <<ElemEv("click", "submit_button", elems.submit_button, <<>>),
                           Ev("sleep", "", NoLoc, 3, <<>>)>>
    /\ pc' = "finally"
    /\ UNCHANGED <<fetchVars, product_info, review, config, browserVars, exc,
                   exitVars, findVars, callVars>>

\* the try block of main is left by this position
LeavesTry(p) == p = "finally"


\* driver.quit() at the end of the try block only, without a "finally": an
\* exception in flight ends the process with the browser left open
Finally_OnlyOnSuccess ==
    /\ LeavesTry(pc)
    /\ trace' = IF exc = NoExc
                THEN Append(trace, Ev("quit", "", NoLoc, 0, <<>>))
                ELSE trace
    /\ driver' = IF exc = NoExc THEN "quit" ELSE driver
    /\ exit_code' = IF exc = NoExc THEN 0 ELSE 1
    /\ pc' = "exited"
    /\ UNCHANGED <<fetchVars, product_info, review, config, handles, current,
                   elems, exc, exit_msg, findVars, callVars>>

\* lines 342-343: driver.quit() whether or not an exception is in flight, then
\* the process ends
Finally ==
    /\ LeavesTry(pc)
    /\ trace' = Append(trace, Ev("quit", "", NoLoc, 0, <<>>))
    /\ driver' = "quit"
    /\ exit_code' = IF exc = NoExc THEN 0 ELSE 1
    /\ pc' = "exited"
    /\ UNCHANGED <<fetchVars, product_info, review, config, handles, current,
                   elems, exc, exit_msg, findVars, callVars>>

\* _find_first_element(driver, wait, selectors) called on its own
FindCall ==
    /\ pc = "find_call"
    /\ \E present \in Presence(find_selectors) :
         LET r == find_first_element(find_selectors, present,
                                     WindowOpen(handles, current))
         IN  /\ trace' = trace \o r.waits
             /\ find_result' = [elem |-> r.elem, exc |-> r.exc]
    /\ pc' = "find_done"
    /\ UNCHANGED <<fetchVars, product_info, review, config, browserVars, exc,
                   exitVars, find_selectors, callVars>>

\* _clean_text(value) called on its own
CleanCall ==
    /\ pc = "clean_call"
    /\ call_result' = <<clean_text(call_args)>>
    /\ pc' = "clean_again"
    /\ UNCHANGED <<fetchVars, product_info, review, config, browserVars, exc,
                   exitVars, findVars, call_args, trace>>

\* _clean_text called on what the first call returned
CleanAgain ==
    /\ pc = "clean_again"
    /\ call_result' = Append(call_result, clean_text(call_result[1]))
    /\ pc' = "clean_done"
    /\ UNCHANGED <<fetchVars, product_info, review, config, browserVars, exc,
                   exitVars, findVars, call_args, trace>>

\* _first_text_match(soup, selectors) called on its own
MatchCall ==
    /\ pc = "match_call"
    /\ call_result' = text_match_loop(call_args.soup, call_args.selectors)
    /\ pc' = "match_done"
    /\ UNCHANGED <<fetchVars, product_info, review, config, browserVars, exc,
                   exitVars, findVars, call_args, trace>>

\* generate_review(info) called on its own
ReviewCall ==
    /\ pc = "review_call"
    /\ call_result' = generate_review(call_args)
    /\ pc' = "review_done"
    /\ UNCHANGED <<fetchVars, product_info, review, config, browserVars, exc,
                   exitVars, findVars, call_args, trace>>

---------------------------------------------------------------------------
(* The states of the posting workflow, read off the position of main. *)

WorkflowState ==
    IF pc \in {"nav_get", "nav_click"} THEN "NavigatingToForm"
    ELSE IF pc \in {"login_check", "login_find_fields", "login_fill",
                    "login_find_submit", "login_click"} THEN "OptionalLogin"
    ELSE IF pc \in {"post_find_textarea", "post_type", "post_find_submit",
                    "post_click"} THEN "FillingReview"
    ELSE IF pc \in {"finally", "exited"} /\ driver # "none"
    THEN (IF exc = NoExc THEN "Submitted" ELSE "Failed")
    ELSE "NotStarted"

---------------------------------------------------------------------------
(* Specifications *)

\* the state before anything ran, but for pc, retries, config and call_args
Blank ==
    /\ attempt = 0
    /\ last_error = "none"
    /\ response = NoResponse
    /\ product_info = NoInfo
    /\ review = None
    /\ driver = "none"
    /\ handles = <<>>
    /\ current = 0
    /\ elems = NoElems
    /\ exc = NoExc
    /\ exit_code = -1
    /\ exit_msg = ""
    /\ find_selectors = <<>>
    /\ find_result = NoResult
    /\ call_result = NoCall
    /\ trace = <<>>

\* fetch_product_info(url, retries=N) called on its own
InitFetch ==
    /\ pc = "fetch_loop"
    /\ retries \in (0 - MaxNegRetries)..MaxRetries
    /\ config = RoomPosterConfig(None, None)
    /\ call_args = NoCall
    /\ Blank

NextFetch == FetchLoop \/ FetchGet \/ FetchSleep \/ FetchParse

SpecFetch == InitFetch /\ [][NextFetch]_vars

\* main(): the arguments are parsed, the config is built, the fetch starts
\* with the default retries
Init ==
    /\ pc = "fetch_loop"
    /\ retries = DEFAULT_RETRIES
    /\ \E u \in Usernames, p \in Passwords : config = RoomPosterConfig(u, p)
    /\ call_args = NoCall
    /\ Blank

Next ==
    \/ FetchLoop \/ FetchGet \/ FetchSleep \/ FetchParse
    \/ MainFetchReturned \/ MainFetchFailed \/ GenerateReview \/ CreateDriver
    \/ NavGet \/ NavClick
    \/ LoginCheck \/ LoginFindFields \/ LoginFill \/ LoginFindSubmit \/ LoginClick
    \/ PostFindTextarea \/ PostType \/ PostFindSubmit \/ PostClick
    \/ Finally

Spec == Init /\ [][Next]_vars

Locators ==
    {LOGIN_SUBMIT_SELECTORS[i] : i \in 1..3}

\* _find_first_element called with any list of at most MaxSelectors locators,
\* in a browser whose current window is open (1) or closed (2)
InitFind ==
    /\ pc = "find_call"
    /\ retries = DEFAULT_RETRIES
    /\ config = RoomPosterConfig(None, None)
    /\ attempt = 0
    /\ last_error = "none"
    /\ response = NoResponse
    /\ product_info = NoInfo
    /\ review = None
    /\ driver = "open"
    /\ handles = <<1>>
    /\ current \in {1, 2}
    /\ elems = NoElems
    /\ exc = NoExc
    /\ exit_code = -1
    /\ exit_msg = ""
    /\ \E n \in 0..MaxSelectors : find_selectors \in [1..n -> Locators]
    /\ find_result = NoResult
    /\ call_args = NoCall
    /\ call_result = NoCall
    /\ trace = <<>>

NextFind == FindCall

SpecFind == InitFind /\ [][NextFind]_vars

\* a pure function is called on its own: nothing else has run
InitCall ==
    /\ retries = DEFAULT_RETRIES
    /\ config = RoomPosterConfig(None, None)
    /\ Blank

InitReview ==
    /\ pc = "review_call"
    /\ call_args \in ReviewInfos
    /\ InitCall

NextReview == ReviewCall

SpecReview == InitReview /\ [][NextReview]_vars

InitClean ==
    /\ pc = "clean_call"
    /\ call_args \in CleanInputs
    /\ InitCall

NextClean == CleanCall \/ CleanAgain

SpecClean == InitClean /\ [][NextClean]_vars

\* any document, and any list of at most MaxSelectors selectors
InitMatch ==
    /\ pc = "match_call"
    /\ \E soup \in MatchSoups, n \in 0..MaxSelectors :
         \E selectors \in [1..n -> {MatchSelectors[i] : i \in 1..3}] :
            call_args = [soup |-> soup, selectors |-> selectors]
    /\ InitCall

NextMatch == MatchCall

SpecMatch == InitMatch /\ [][NextMatch]_vars

---------------------------------------------------------------------------
(* Properties *)

\* positions of the trace holding an operation of the given kind
Positions(op) == {i \in 1..Len(trace) : trace[i].op = op}

\* the number of HTTP GET attempts up to position i of the trace
GetOrdinal(i) == Cardinality({j \in 1..i : trace[j].op = "http_get"})

Failed(i) == trace[i].op = "http_get" /\ trace[i].res # "none"

Succeeded(i) == trace[i].op = "http_get" /\ trace[i].res = "none"

\* a sleep of the fetcher: one that directly follows an HTTP GET
FetchSleepAt(i) ==
    trace[i].op = "sleep" /\ i > 1 /\ trace[i - 1].op = "http_get"

\* C1: with retries = N >= 1 at most N HTTP GET attempts are made; the k-th
\* failed attempt with k < N is followed by a sleep of exactly 2*k before
\* attempt k+1, so the sleeps grow strictly; nothing is slept after the N-th
\* failed attempt, and the fetcher sleeps at no other time.
C1_BackoffBounded ==
    retries >= 1 =>
      /\ Cardinality(Positions("http_get")) <= retries
      /\ \A i \in Positions("http_get") :
           LET k == GetOrdinal(i) IN
           /\ Failed(i) /\ k < retries /\ i < Len(trace)
                => trace[i + 1].op = "sleep" /\ trace[i + 1].n = 2 * k
           /\ Failed(i) /\ k = retries /\ i < Len(trace)
                => trace[i + 1].op # "sleep"
           /\ k > 1 => /\ FetchSleepAt(i - 1)
                       /\ Failed(i - 2)
                       /\ trace[i - 1].n = 2 * (k - 1)
      /\ \A i \in 1..Len(trace) :
           FetchSleepAt(i) => Failed(i - 1) /\ GetOrdinal(i) < retries
      /\ \A i, j \in 1..Len(trace) :
           FetchSleepAt(i) /\ FetchSleepAt(j) /\ i < j
             => trace[i].n < trace[j].n
      /\ pc = "fetch_sleep" => Failed(Len(trace)) /\ attempt < retries

\* C1 witness: three attempts of three failed, after sleeps of 2 and then 4
C1_Witness ==
    /\ retries = 3
    /\ pc = "fetch_raise"
    /\ Cardinality(Positions("http_get")) = 3
    /\ Len(trace) = 5
    /\ trace[2].op = "sleep" /\ trace[2].n = 2
    /\ trace[4].op = "sleep" /\ trace[4].n = 4
    /\ Failed(5)

AllAttemptsFailed ==
    /\ Cardinality(Positions("http_get")) = retries
    /\ \A i \in Positions("http_get") : Failed(i)

\* C2: with retries = N >= 1 the fetcher stops at the first successful
\* attempt: no attempt and no sleep follows a successful one, the response
\* parsed is the body of that attempt and the ProductInfo returned is built
\* from it; the fetch-failed RuntimeError is raised if and only if all N
\* attempts failed.
C2_StopsAtFirstSuccess ==
    retries >= 1 =>
      /\ \A i \in Positions("http_get") :
           Succeeded(i) =>
             \A j \in (i + 1)..Len(trace) :
               trace[j].op # "http_get" /\ ~FetchSleepAt(j)
      /\ pc \in {"fetch_parse", "fetch_return"}
           => /\ Succeeded(Len(trace))
              /\ response.present
              /\ response.status < 400
      /\ (\E i \in Positions("http_get") : Succeeded(i))
           => pc \in {"fetch_parse", "fetch_return"}
      /\ pc = "fetch_return" => product_info = extract(response.soup)
      /\ pc # "fetch_return" => product_info = NoInfo
      /\ (exc.type = "RuntimeError") <=> AllAttemptsFailed
      /\ exc.type = "RuntimeError"
           => /\ pc = "fetch_raise"
              /\ exc.msg = MSG_FETCH_TRANSPORT
              /\ exc.cause = trace[Len(trace)].res

\* C2 witness: the second of three allowed attempts succeeds and the
\* ProductInfo is returned with nothing after that attempt
C2_Witness ==
    /\ retries = 3
    /\ pc = "fetch_return"
    /\ Len(trace) = 3
    /\ Failed(1) /\ Succeeded(3)
    /\ product_info.title = <<"A", " ", "B">>

BrowserOps ==
    {"get", "wait_clickable", "click", "window_handles", "switch_to",
     "wait_presence", "clear", "send_keys", "wait_windows", "quit"}

\* C3: in every run in which the browser session was created, quit is invoked
\* exactly once, as the last operation of the run, on every exit path (after
\* the submission and after a failure of navigate_to_room, login_if_required
\* or post_review); without a session there is no browser operation at all.
C3_QuitOnceLast ==
    /\ Cardinality(Positions("quit")) <= 1
    /\ \A i \in Positions("quit") : i = Len(trace)
    /\ (driver = "quit") <=> (Positions("quit") # {})
    /\ (driver # "none") <=> (Positions("create_driver") # {})
    /\ driver = "none" => \A i \in 1..Len(trace) : trace[i].op \notin BrowserOps
    /\ pc = "exited" /\ driver # "none"
         => /\ driver = "quit"
            /\ Cardinality(Positions("quit")) = 1
            /\ trace[Len(trace)].op = "quit"

\* C3 witness: post_review failed to find the textarea and the run ended with
\* the browser quit
C3_Witness ==
    /\ pc = "exited"
    /\ exc.msg = "Unable to locate ROOM review textarea."
    /\ driver = "quit"
    /\ trace[Len(trace)].op = "quit"
    /\ trace[Len(trace) - 1].op = "wait_presence"

\* the workflow may stay in its state, move to the next one, or fail
Forward(s, t) ==
    \/ t = s
    \/ s = "NotStarted" /\ t = "NavigatingToForm"
    \/ s = "NavigatingToForm" /\ t = "OptionalLogin"
    \/ s = "OptionalLogin" /\ t = "FillingReview"
    \/ s = "FillingReview" /\ t = "Submitted"
    \/ s \in {"NavigatingToForm", "OptionalLogin", "FillingReview"} /\ t = "Failed"

\* the operation at position i acts on the element of the local variable var
OnElem(tr, i, op, var) == tr[i].op = op /\ tr[i].var = var

C4_Step ==
    LET new == SubSeq(trace', Len(trace) + 1, Len(trace'))
        tr  == trace'
    IN  /\ Forward(WorkflowState, WorkflowState')
        /\ \A i \in 1..Len(new) :
             /\ new[i].var = "textarea" => WorkflowState = "FillingReview"
             /\ new[i].var = "submit_button"
                  => WorkflowState = "FillingReview" /\ new[i].op = "click"
        /\ \A i \in 1..Len(tr) :
             /\ OnElem(tr, i, "send_keys", "textarea")
                  => /\ tr[i].text = review
                     /\ review = generate_review(product_info)
                     /\ i > 1 /\ OnElem(tr, i - 1, "clear", "textarea")
                     /\ \E j \in 1..(i - 1) : OnElem(tr, j, "click", "room_link")
             /\ OnElem(tr, i, "click", "submit_button")
                  => \E j \in 1..(i - 1) :
                       /\ OnElem(tr, j, "send_keys", "textarea")
                       /\ tr[j].text = review
                       /\ tr[j].loc = elems'.textarea
        /\ WorkflowState' = "Submitted"
             => \E i \in 1..Len(tr) : OnElem(tr, i, "click", "submit_button")
        /\ WorkflowState' = "Submitted" /\ WorkflowState # "Submitted"
             => Len(new) = 2 /\ OnElem(new, 1, "click", "submit_button")
        /\ WorkflowState = "Failed"
             => /\ WorkflowState' = "Failed"
                /\ \A i \in 1..Len(new) : new[i].op = "quit"

\* C4: the workflow only moves forward through NavigatingToForm,
\* OptionalLogin, FillingReview and Submitted: the review is typed only in
\* FillingReview, after the ROOM link was clicked; the review submit control
\* is clicked only after the generated review was typed into the review
\* input; Submitted is reached only by that click; and once Failed, nothing
\* but quit follows.
C4_ForwardOnly == [][C4_Step]_vars

\* C4 witness: a run that logged in, typed the review and submitted it
C4_Witness ==
    /\ pc = "exited"
    /\ WorkflowState = "Submitted"
    /\ \E i \in 1..Len(trace) : OnElem(trace, i, "click", "login_button")
    /\ \E i \in 1..Len(trace) : OnElem(trace, i, "click", "submit_button")

\* C5: when the fetch fails after exhausting its retries, the run ends with a
\* non-zero exit carrying the user-facing message; no review is generated,
\* the browser is never launched and no browser operation is performed.
C5_FetchFailureStopsRun ==
    AllAttemptsFailed =>
      /\ pc \in {"fetch_raise", "exited"}
      /\ pc = "fetch_raise" => exc.type = "RuntimeError" /\ ENABLED MainFetchFailed
      /\ pc = "exited"
           => /\ exit_code = 1
              /\ exit_msg = MSG_EXIT
              /\ exc.type = "SystemExit"
      /\ review = None
      /\ product_info = NoInfo
      /\ driver = "none"
      /\ \A i \in 1..Len(trace) : trace[i].op \in {"http_get", "sleep"}

\* C5 witness: three failed attempts, then the exit with the message
C5_Witness ==
    /\ pc = "exited"
    /\ exit_code = 1
    /\ exit_msg = MSG_EXIT
    /\ Cardinality(Positions("http_get")) = 3
    /\ Len(trace) = 5

\* C6: _find_first_element waits for the locators in list order and returns
\* the element of the first locator whose wait succeeds, trying no later
\* locator; when every wait times out it raises a TimeoutException carrying
\* the failure of the last wait; with an empty list it raises the distinct
\* "No selectors provided" failure without any wait.
C6_FindFirst ==
    pc = "find_done" =>
      LET n   == Len(trace)
          sel == find_selectors
          r   == find_result
      IN  /\ n <= Len(sel)
          /\ \A i \in 1..n :
               trace[i].op = "wait_presence" /\ trace[i].loc = sel[i]
          /\ \A i \in 1..(n - 1) : trace[i].res = "TimeoutException"
          /\ (r.elem # NoLoc) <=> (n >= 1 /\ trace[n].res = "found")
          /\ r.elem # NoLoc => r.elem = sel[n] /\ r.exc = NoExc
          /\ n >= 1 /\ trace[n].res = "TimeoutException"
               => /\ n = Len(sel)
                  /\ r.exc.type = "TimeoutException"
                  /\ r.exc.msg = "str(last_error)"
                  /\ r.exc.loc = sel[n]
          /\ sel = <<>>
               => /\ n = 0
                  /\ r.exc = Exc("TimeoutException", "No selectors provided", "")
          /\ sel # <<>> => n >= 1 /\ r.exc.msg # "No selectors provided"

\* C6 witness: of three locators the first times out, the second is found
\* and the third is not tried
C6_Witness ==
    /\ pc = "find_done"
    /\ Len(find_selectors) = 3
    /\ Len(trace) = 2
    /\ trace[1].res = "TimeoutException"
    /\ trace[2].res = "found"
    /\ find_result.elem = find_selectors[2]
    /\ find_selectors[3] # find_selectors[2]

Absent(v) == v = None \/ v = <<>>

LoginVars == {"username_input", "password_input", "login_button"}

\* login_if_required touched the browser: an operation on one of its
\* elements, a wait for one of its fields, or its wait on the window count
LoginTouched ==
    \E i \in 1..Len(trace) :
      \/ trace[i].var \in LoginVars
      \/ trace[i].op = "wait_windows"
      \/ /\ trace[i].op = "wait_presence"
         /\ trace[i].loc \in Range(LOGIN_USERNAME_SELECTORS)
                             \cup Range(LOGIN_PASSWORD_SELECTORS)

\* the position of the first operation after those of navigate_to_room
AfterNavigation ==
    IF Positions("switch_to") # {}
    THEN (CHOOSE i \in Positions("switch_to") : TRUE) + 1
    ELSE (CHOOSE i \in Positions("window_handles") : TRUE) + 1

\* the operation after navigate_to_room, if any, is the first lookup of
\* post_review
ReviewLookupFollowsNavigation ==
    Positions("window_handles") # {} /\ AfterNavigation <= Len(trace)
      => /\ trace[AfterNavigation].op = "wait_presence"
         /\ trace[AfterNavigation].loc = config.review_selectors[1]

PostPositions ==
    {"post_find_textarea", "post_type", "post_find_submit", "post_click",
     "finally", "exited"}

\* C7: if the username or the password is absent (None or empty),
\* login_if_required performs no browser operation at all and returns
\* normally: the operation after navigate_to_room is the first lookup of
\* post_review.
C7_NoCredentialsNoLogin ==
    Absent(config.username) \/ Absent(config.password) =>
      /\ pc \notin {"login_find_fields", "login_fill", "login_find_submit",
                    "login_click"}
      /\ ~LoginTouched
      /\ Cardinality(Positions("window_handles")) <= 2
      /\ Cardinality(Positions("switch_to")) <= 1
      /\ ReviewLookupFollowsNavigation
      /\ pc = "post_find_textarea"
           => exc = NoExc /\ Len(trace) = AfterNavigation - 1

\* C7 witness: a username but an empty password, and the review lookup done
C7_Witness ==
    /\ config.username = <<"u">>
    /\ config.password = <<>>
    /\ pc = "post_type"
    /\ elems.textarea # NoLoc

\* every wait for the locators of L, from position i on, timed out
AllTimedOut(L, i) ==
    /\ i >= 1
    /\ i + Len(L) - 1 <= Len(trace)
    /\ \A k \in 1..Len(L) :
         /\ trace[i + k - 1].op = "wait_presence"
         /\ trace[i + k - 1].loc = L[k]
         /\ trace[i + k - 1].res = "TimeoutException"

\* the positions at which the lookup of a mandatory control has failed: the
\* ROOM link, the login submit control after the password was typed, the
\* review textarea, the review submit control after the review was typed
MandatoryFailures ==
    {i \in 1..Len(trace) :
       trace[i].op = "wait_clickable" /\ trace[i].res = "TimeoutException"}
    \cup
    {i + Len(LOGIN_SUBMIT_SELECTORS) - 1 : i \in
       {i \in 2..Len(trace) :
          /\ OnElem(trace, i - 1, "send_keys", "password_input")
          /\ AllTimedOut(LOGIN_SUBMIT_SELECTORS, i)}}
    \cup
    {i + Len(config.review_selectors) - 1 : i \in
       {i \in 1..Len(trace) : AllTimedOut(config.review_selectors, i)}}
    \cup
    {i + Len(config.submit_selectors) - 1 : i \in
       {i \in 2..Len(trace) :
          /\ OnElem(trace, i - 1, "send_keys", "textarea")
          /\ AllTimedOut(config.submit_selectors, i)}}

\* C8: a failure to locate a control of a mandatory step (the ROOM link, the
\* login submit control after the fields were filled, the review textarea,
\* the review submit control) is fatal: the error propagates out of the
\* workflow, nothing is typed or clicked afterwards, Submitted is not
\* reached, and the browser is still quit.
C8_MandatoryFailureFatal ==
    \A e \in MandatoryFailures :
      /\ exc.type \in {"TimeoutException", "RuntimeError"}
      /\ exc.type = "RuntimeError" => exc.cause = "TimeoutException"
      /\ exc.loc = trace[e].loc
      /\ pc \in {"finally", "exited"}
      /\ WorkflowState = "Failed"
      /\ \A j \in (e + 1)..Len(trace) : trace[j].op = "quit"
      /\ pc = "exited"
           => /\ driver = "quit"
              /\ exit_code = 1
              /\ trace[Len(trace)].op = "quit"

\* C8 witness: the login fields were filled, the login submit control was
\* not found, and the run ended with the browser quit
C8_Witness ==
    /\ pc = "exited"
    /\ exc.msg = "Unable to locate login submit button."
    /\ \E i \in 1..Len(trace) : OnElem(trace, i, "send_keys", "password_input")
    /\ driver = "quit"

\* the positions at which the lookup of a login field has failed
LoginFieldFailures ==
    {i + Len(LOGIN_USERNAME_SELECTORS) - 1 : i \in
       {i \in 1..Len(trace) : AllTimedOut(LOGIN_USERNAME_SELECTORS, i)}}
    \cup
    {i + Len(LOGIN_PASSWORD_SELECTORS) - 1 : i \in
       {i \in 1..Len(trace) : AllTimedOut(LOGIN_PASSWORD_SELECTORS, i)}}

\* C9: when credentials are supplied but the username field or the password
\* field is found by none of its locators, login_if_required returns
\* normally without typing or clicking anything (also when the username
\* field was found and the password field was not), and the workflow goes on
\* with the first lookup of post_review.
C9_NoLoginFormProceeds ==
    \A e \in LoginFieldFailures :
      /\ ~Absent(config.username) /\ ~Absent(config.password)
      /\ \A i \in 1..Len(trace) :
           trace[i].var \notin LoginVars /\ trace[i].op # "wait_windows"
      /\ pc \in PostPositions
      /\ pc = "post_find_textarea" => exc = NoExc /\ e = Len(trace)
      /\ e < Len(trace)
           => /\ trace[e + 1].op = "wait_presence"
              /\ trace[e + 1].loc = config.review_selectors[1]
      /\ exc # NoExc
           => exc.msg \in {"Unable to locate ROOM review textarea.",
                           "Unable to locate ROOM submit button."}

\* C9 witness: the username field was found, the password field was not, and
\* the review was typed
C9_Witness ==
    /\ \E i \in 1..Len(trace) :
         /\ trace[i].op = "wait_presence"
         /\ trace[i].res = "found"
         /\ trace[i].loc \in Range(LOGIN_USERNAME_SELECTORS)
    /\ \E i \in 1..Len(trace) : AllTimedOut(LOGIN_PASSWORD_SELECTORS, i)
    /\ \E i \in 1..Len(trace) : OnElem(trace, i, "send_keys", "textarea")

\* C10: the title of the ProductInfo is non-empty at the time the review is
\* generated, whatever the fetched markup.
C10_TitleNonEmpty ==
    pc = "generate" => product_info.title # None /\ Len(product_info.title) > 0

\* C11: the text generate_review returns has at most 400 characters; when the
\* untruncated text has more than 400, the result is its first 397 characters
\* followed by one ellipsis character (398 in all); otherwise the result is
\* the untruncated text
C11_ReviewLengthBounded ==
    pc = "review_done" =>
        LET text == untruncated_review(call_args) IN
        /\ Len(call_result) <= 400
        /\ Len(text) > 400 =>
              /\ Len(call_result) = 398
              /\ SubSeq(call_result, 1, 397) = SubSeq(text, 1, 397)
              /\ call_result[398] = "U+2026"
        /\ Len(text) <= 400 => call_result = text

\* a text of 401 characters was cut to 398
C11_Witness ==
    /\ pc = "review_done"
    /\ Len(untruncated_review(call_args)) = 401
    /\ Len(call_result) = 398

\* a text with no whitespace character but the space (no tab, no newline), no
\* two whitespace characters in a row and
\* no whitespace at either end
Normalized(t) ==
    /\ \A i \in 1..Len(t) : IsSpace(t[i]) => t[i] = " "
    /\ \A i \in 1..(Len(t) - 1) : ~(IsSpace(t[i]) /\ IsSpace(t[i + 1]))
    /\ t # <<>> => ~IsSpace(t[1]) /\ ~IsSpace(t[Len(t)])

\* C12: every text field of the ProductInfo the fetch returns (title, price,
\* shop name) is whitespace-normalized
C12_FieldsNormalized ==
    pc = "fetch_return" =>
        /\ Normalized(product_info.title)
        /\ product_info.price # None => Normalized(product_info.price)
        /\ product_info.shop_name # None => Normalized(product_info.shop_name)

\* the positions of the selectors given that match an element of the document
Matching ==
    {i \in 1..Len(call_args.selectors) :
        select_one(call_args.soup, call_args.selectors[i]).found}

\* C13: the selectors are evaluated in list order and the evaluation stops at
\* the first one that matches an element: a selector is evaluated only if
\* every earlier one matched nothing, and the text returned is that of the
\* element of the matching selector with the lowest index
C13_FirstMatchWins ==
    pc = "match_done" =>
        LET sels  == call_args.selectors
            tried == call_result.tried
        IN  /\ Len(tried) <= Len(sels)
            /\ \A i \in 1..Len(tried) :
                 /\ tried[i] = sels[i]
                 /\ \A j \in 1..(i - 1) : j \notin Matching
            /\ Matching = {} =>
                 /\ Len(tried) = Len(sels)
                 /\ call_result.text = None
            /\ Matching # {} =>
                 LET k == CHOOSE m \in Matching : \A j \in Matching : m <= j
                 IN  /\ Len(tried) = k
                     /\ call_result.text =
                          node_text(select_one(call_args.soup, sels[k]))

\* the first selector matched nothing, the second an element without text and
\* the third an element with a text: the empty text of the second is returned
C13_Witness ==
    /\ pc = "match_done"
    /\ Len(call_args.selectors) = 3
    /\ Matching = {2, 3}
    /\ node_text(select_one(call_args.soup, call_args.selectors[3])) # <<>>
    /\ call_result.text = <<>>
    /\ Len(call_result.tried) = 2

\* no title, price or shop selector matches an element of the fetched document
NothingMatches ==
    /\ response.present
    /\ \A i \in 1..3 : ~select_one(response.soup, DEFAULT_TITLE_SELECTORS[i]).found
    /\ \A i \in 1..3 : ~select_one(response.soup, DEFAULT_PRICE_SELECTORS[i]).found
    /\ \A i \in 1..2 : ~select_one(response.soup, DEFAULT_SHOP_SELECTORS[i]).found

\* C14: when no title, price or shop selector matches, the ProductInfo
\* returned has the default title "楽天の商品", no price and no shop name
C14_NoMatchDefaults ==
    pc = "fetch_return" /\ NothingMatches =>
        /\ product_info.title = <<"U+697D", "U+5929", "U+306E", "U+5546", "U+54C1">>
        /\ product_info.price = None
        /\ product_info.shop_name = None

\* the fetch returned for a document in which nothing matches
C14_Witness ==
    /\ pc = "fetch_return"
    /\ NothingMatches
    /\ product_info.title = DEFAULT_TITLE
    /\ product_info.price = None

\* C15: _clean_text is idempotent: for every input, applying it to its own
\* result gives that same result
C15_CleanTextIdempotent ==
    pc = "clean_done" => call_result[2] = call_result[1]

\* text.split("\n"): the lines of a text
Lines(text) ==
    LET nl       == {i \in 1..Len(text) : text[i] = "\n"}
        n        == Cardinality(nl)
        pos(k)   == CHOOSE i \in nl : Cardinality({j \in nl : j < i}) = k - 1
        first(k) == IF k = 1 THEN 1 ELSE pos(k - 1) + 1
        last(k)  == IF k = n + 1 THEN Len(text) ELSE pos(k) - 1
    IN  [k \in 1..(n + 1) |-> SubSeq(text, first(k), last(k))]

\* the separator and the phrase of an optional field, or nothing when the
\* field is None or empty
Phrase(field, suffix) ==
    IF field = None \/ field = <<>> THEN <<>>
    ELSE <<"U+30FB">> \o field \o suffix

\* C16: the first line of the untruncated review is "要点: " and the title,
\* then the price phrase only if the price is present, then the shop phrase
\* only if the shop name is present, each part after the first preceded by
\* exactly one "・"; it is followed by one empty line and exactly three bullet
\* lines
C16_ReviewLayout ==
    pc = "review_done" =>
        LET text == untruncated_review(call_args)
            ls   == Lines(text)
        IN  /\ Len(ls) = 5
            /\ ls[1] = <<"U+8981", "U+70B9", ":", " ">>
                         \o call_args.title
                         \o Phrase(call_args.price, PRICE_SUFFIX)
                         \o Phrase(call_args.shop_name, SHOP_SUFFIX)
            /\ ls[2] = <<>>
            /\ \A i \in 3..5 : Len(ls[i]) > 1 /\ ls[i][1] = "U+30FB"
            /\ Len(text) <= 400 => call_result = text

\* a review with a price and no shop name: one separator in the first line
C16_Witness ==
    /\ pc = "review_done"
    /\ call_args.title = <<"0", "1", "2">>
    /\ call_args.price = <<"9">>
    /\ call_args.shop_name = None
    /\ Lines(call_result)[1] =
         <<"U+8981", "U+70B9", ":", " ", "0", "1", "2", "U+30FB", "9">>
         \o PRICE_SUFFIX
    /\ Len(Lines(call_result)) = 5

\* positions of the trace at which the login button was clicked
LoginClicks == {i \in 1..Len(trace) : OnElem(trace, i, "click", "login_button")}

\* the review was typed or submitted
ReviewTouched ==
    \E j \in 1..Len(trace) :
        \/ OnElem(trace, j, "send_keys", "textarea")
        \/ OnElem(trace, j, "click", "submit_button")

\* C17: after the click on the login submit button the workflow enters
\* FillingReview only once exactly one window is open; if more than one window
\* stays open until the wait times out, the run ends in Failed and no review
\* text is typed or submitted
C17_OneWindowBeforeReview ==
    \A i \in LoginClicks :
        /\ i < Len(trace)
        /\ trace[i + 1].op = "wait_windows"
        /\ trace[i + 1].res = "found" <=> trace[i + 1].n = 1
        /\ WorkflowState = "FillingReview" =>
             /\ trace[i + 1].res = "found"
             /\ Len(handles) = 1
        /\ trace[i + 1].n > 1 =>
             /\ trace[i + 1].res = "TimeoutException"
             /\ exc.type = "TimeoutException"
             /\ WorkflowState = "Failed"
             /\ pc = "exited" => exit_code = 1
             /\ ~ReviewTouched

\* the ROOM tab and the original window both stayed open after the login
\* click: the wait timed out and the run ended without a review
C17_Witness ==
    /\ pc = "exited"
    /\ exit_code = 1
    /\ driver = "quit"
    /\ \E i \in LoginClicks :
         /\ trace[i + 1].op = "wait_windows"
         /\ trace[i + 1].n = 2
         /\ trace[i + 1].res = "TimeoutException"
    /\ ~ReviewTouched

\* positions of main at which login_if_required or post_review looks an
\* element up, types into one or clicks one
ElementOps ==
    {"login_find_fields", "login_fill", "login_find_submit", "login_click",
     "post_find_textarea", "post_type", "post_find_submit", "post_click"}

\* C18: at every element lookup, keystroke or click of login_if_required and
\* post_review, the window the driver is switched to is one of the open
\* windows, however the page opens a window after the click on the ROOM link
\* and closes a window during the login
C18_DriverOnOpenWindow ==
    pc \in ElementOps => WindowOpen(handles, current)

\* C19: called with retries <= 0, fetch_product_info makes no HTTP attempt and
\* no sleep and raises the fetch-failed RuntimeError; it never returns a
\* ProductInfo, and the parse is never reached with a missing response
C19_NoAttemptWithoutRetries ==
    /\ retries <= 0 =>
         /\ trace = <<>>
         /\ pc \in {"fetch_loop", "fetch_raise"}
         /\ pc = "fetch_loop" => exc = NoExc
         /\ pc = "fetch_raise" =>
              exc = [type |-> "RuntimeError", msg |-> MSG_FETCH_FAILED,
                     cause |-> "", loc |-> NoLoc]
         /\ product_info = NoInfo
         /\ ~response.present
    /\ pc = "fetch_parse" => response.present

\* the call with a negative retries raised without an attempt
C19_Witness ==
    /\ retries < 0
    /\ pc = "fetch_raise"
    /\ exc.type = "RuntimeError"
    /\ exc.msg = MSG_FETCH_FAILED
    /\ trace = <<>>

====
